---- MODULE Spec2Model ----
(***************************************************************************)
(* read_em122_wgs84 (src/read_em_122.py): one run over one EM122 .all      *)
(* file.  Pass 1 loads the navigation fixes, the reader is rewound, pass 2 *)
(* streams the datagrams, geocodes every depth ping that has a navigation  *)
(* value, and the per-ping batches are flattened into the returned         *)
(* dictionary together with the ping index.                                *)
(***************************************************************************)
EXTENDS Integers, Sequences, FiniteSets, TLC

VARIABLES pc, isfile, fileLen, content, pos, opened, closes, rewinds,
          navigation, decoded, ping_count,
          list_lat, list_lon, list_z, list_bs, list_ang,
          list_beam_counts, list_ping_times,
          progress, data, error

vars == <<pc, isfile, fileLen, content, pos, opened, closes, rewinds,
          navigation, decoded, ping_count,
          list_lat, list_lon, list_z, list_bs, list_ang,
          list_beam_counts, list_ping_times,
          progress, data, error>>

----------------------------------------------------------------------------
(* Bounds of the model *)

\* datagrams in a file whose datagrams are drawn freely
MaxRecords == 2
\* datagrams in a long file that repeats one datagram
LongRecords == 50
\* beams of one depth ping
MaxBeams == 2
\* position fixes the navigation load returns
MaxFixes == 2

(* Program constant: the progress line is refreshed every 50 pings *)
ProgressEvery == 50

----------------------------------------------------------------------------
(* Values *)

\* Python's None, and a present value, as results of a lookup
None == <<>>
Some(v) == <<v>>

\* the k-th position fix [timestamp, lat, lon] of the vessel track
Fix(k) == <<2 * k - 1, 10 + 2 * (k - 1), 120 + 4 * (k - 1)>>

\* what loadnavigation can return: the first n fixes of the track
Navigations == {[k \in 1..n |-> Fix(k)] : n \in 0..MaxFixes}

\* time-of-day fields of the depth datagrams: before the track, between two
\* fixes, on a fix
Times == {0, 2, 3}

\* the two swaths a ping can have: starboard-first or port-first, with the
\* heading the vessel had
Swaths == {1, -1}
HeadingOf(p) == IF p = 1 THEN 0 ELSE 90

\* a depth datagram ('X') with n beams of swath p at time-of-day t
Ping(t, p, n) ==
    [type |-> "X", recorddate |-> 19700101, time |-> t, heading |-> HeadingOf(p),
     acrosstrackdistance |-> [i \in 1..n |-> i * p],
     alongtrackdistance  |-> [i \in 1..n |-> 0 - p],
     depth               |-> [i \in 1..n |-> i],
     reflectivity        |-> [i \in 1..n |-> 0 - (20 + i) - (IF p = 1 THEN 0 ELSE 10)]]

\* a datagram of any other type (position, attitude, ...): never decoded
Other ==
    [type |-> "P", recorddate |-> 19700101, time |-> 0, heading |-> 0,
     acrosstrackdistance |-> <<>>, alongtrackdistance |-> <<>>,
     depth |-> <<>>, reflectivity |-> <<>>]

DepthDatagrams == {Ping(t, p, n) : t \in Times, p \in Swaths, n \in 0..MaxBeams}
Datagrams == DepthDatagrams \cup {Other}

\* the one-beam pings a long file can repeat
RepeatedPings == {Ping(t, 1, 1) : t \in Times}

EmptyData ==
    [lat |-> <<>>, lon |-> <<>>, z |-> <<>>, bs |-> <<>>, ang |-> <<>>,
     ping_counts |-> <<>>, ping_starts |-> <<>>, ping_times |-> <<>>]

----------------------------------------------------------------------------
(* Collaborators *)

\* pyall.to_timestamp(r.to_datetime(recorddate, time)): seconds since the epoch
to_timestamp(recorddate, time) == (recorddate - 19700101) * 86400 + time

\* the columns of nav_arr
NavColumn(nav, c) == [k \in 1..Len(nav) |-> nav[k][c]]

\* timeseries.ctimeSeries(times, values).getValueAt(t)
getValueAt(times, values, t) ==
    IF Len(times) = 0 \/ t < times[1] \/ t > times[Len(times)]
    THEN None
    ELSE IF \E k \in 1..Len(times) : times[k] = t
         THEN Some(values[CHOOSE k \in 1..Len(times) : times[k] = t])
         ELSE LET k == CHOOSE j \in 1..(Len(times) - 1) : times[j] < t /\ t < times[j + 1]
              IN  Some(values[k] + ((values[k + 1] - values[k]) * (t - times[k]))
                                     \div (times[k + 1] - times[k]))

\* geodetic.calculateGeographicalPositionFromBearingDxDy(lon, lat, bearing, dx, dy):
\* dx to starboard, dy ahead, for the bearings 0 and 90
calculateGeographicalPositionFromBearingDxDy(lon, lat, bearing, dx, dy) ==
    IF bearing = 0 THEN <<lon + dx, lat + dy>>
                   ELSE <<lon + dy, lat - dx>>

\* np.degrees(np.arctan2(y, x)) in whole degrees: exact on the axes and on the
\* diagonals, where every beam of the two swaths lies (|across| = depth)
Atan2Deg(y, x) ==
    IF y = 0 THEN (IF x >= 0 THEN 0 ELSE 180)
    ELSE IF x = 0 THEN (IF y > 0 THEN 90 ELSE -90)
    ELSE IF y > 0 THEN (IF x > 0 THEN 45 ELSE 135)
    ELSE (IF x > 0 THEN -45 ELSE -135)

----------------------------------------------------------------------------
(* The steps of the loop body and of the finalization, as the code computes *)
(* them                                                                     *)

\* lines 79-80: the reference position of a ping at timestamp ts
RefLat(nav, ts) == getValueAt(NavColumn(nav, 1), NavColumn(nav, 2), ts)
RefLon(nav, ts) == getValueAt(NavColumn(nav, 1), NavColumn(nav, 3), ts)

\* line 83: the ping is skipped when either lookup has no value
Skipped(ref_lat, ref_lon) == ref_lat = None \/ ref_lon = None

\* line 98: p_ang, elementwise over the beams of p_z
BeamAngles(p_across, p_z) == [i \in 1..Len(p_z) |-> Atan2Deg(p_across[i], p_z[i])]

ProjectBeamsSwapped(ref_lon, ref_lat, heading, p_across, p_along, n) ==
    [i \in 1..n |->
        calculateGeographicalPositionFromBearingDxDy(
            ref_lon, ref_lat, heading, p_along[i], p_across[i])]

ProjectBeamsShort(ref_lon, ref_lat, heading, p_across, p_along, n) ==
    [i \in 1..(IF n > 0 THEN n - 1 ELSE 0) |->
        calculateGeographicalPositionFromBearingDxDy(
            ref_lon, ref_lat, heading, p_across[i], p_along[i])]

\* lines 104-115: <<b_lon, b_lat>> of beam i, for i in range(len(p_z))
ProjectBeams(ref_lon, ref_lat, heading, p_across, p_along, n) ==
    [i \in 1..n |->
        calculateGeographicalPositionFromBearingDxDy(
            ref_lon, ref_lat, heading, p_across[i], p_along[i])]

\* the accumulation lists as one value
Lists ==
    [lat |-> list_lat, lon |-> list_lon, z |-> list_z, bs |-> list_bs,
     ang |-> list_ang, beam_counts |-> list_beam_counts,
     ping_times |-> list_ping_times]

CollectEmptyBatch(L, d, nav) ==
    LET ts      == to_timestamp(d.recorddate, d.time)
        ref_lat == RefLat(nav, ts)
        ref_lon == RefLon(nav, ts)
        skip    == Skipped(ref_lat, ref_lon)
        p_z     == IF skip THEN <<>> ELSE d.depth
        xy      == IF skip THEN <<>>
                   ELSE ProjectBeams(ref_lon[1], ref_lat[1], d.heading,
                                     d.acrosstrackdistance, d.alongtrackdistance,
                                     Len(p_z))
    IN  [lat |-> Append(L.lat, [i \in 1..Len(xy) |-> xy[i][2]]),
         lon |-> Append(L.lon, [i \in 1..Len(xy) |-> xy[i][1]]),
         z   |-> Append(L.z, p_z),
         bs  |-> Append(L.bs, IF skip THEN <<>> ELSE d.reflectivity),
         ang |-> Append(L.ang, BeamAngles(d.acrosstrackdistance, p_z)),
         beam_counts |-> Append(L.beam_counts, Len(p_z)),
         ping_times  |-> Append(L.ping_times, ts)]

\* lines 75-126: the lists after a depth datagram d, given the navigation
Collect(L, d, nav) ==
    LET ts      == to_timestamp(d.recorddate, d.time)
        ref_lat == RefLat(nav, ts)
        ref_lon == RefLon(nav, ts)
    IN  IF Skipped(ref_lat, ref_lon)
        THEN L
        ELSE LET p_across == d.acrosstrackdistance
                 p_along  == d.alongtrackdistance
                 p_z      == d.depth
                 p_bs     == d.reflectivity
                 p_ang    == BeamAngles(p_across, p_z)
                 xy       == ProjectBeams(ref_lon[1], ref_lat[1], d.heading,
                                          p_across, p_along, Len(p_z))
                 current_ping_lats == [i \in 1..Len(xy) |-> xy[i][2]]
                 current_ping_lons == [i \in 1..Len(xy) |-> xy[i][1]]
             IN  [lat |-> Append(L.lat, current_ping_lats),
                  lon |-> Append(L.lon, current_ping_lons),
                  z   |-> Append(L.z, p_z),
                  bs  |-> Append(L.bs, p_bs),
                  ang |-> Append(L.ang, p_ang),
                  beam_counts |-> Append(L.beam_counts, Len(p_z)),
                  ping_times  |-> Append(L.ping_times, ts)]

\* lines 129-131: the progress line is written for a collected ping whose
\* running count is a multiple of ProgressEvery
Notified(out, d, nav, count) ==
    LET ts == to_timestamp(d.recorddate, d.time)
    IN  IF ~Skipped(RefLat(nav, ts), RefLon(nav, ts)) /\ count % ProgressEvery = 0
        THEN Append(out, count)
        ELSE out

RECURSIVE ConcatenateReversed(_)
ConcatenateReversed(list) ==
    IF Len(list) = 0 THEN <<>> ELSE ConcatenateReversed(Tail(list)) \o Head(list)

\* np.concatenate(list) of a non-empty list of 1-D arrays
RECURSIVE Concatenate(_)
Concatenate(list) ==
    IF Len(list) = 0 THEN <<>> ELSE Head(list) \o Concatenate(Tail(list))

\* np.cumsum(a)
RECURSIVE cumsum(_)
cumsum(a) ==
    IF Len(a) = 0 THEN <<>>
    ELSE LET c == cumsum(SubSeq(a, 1, Len(a) - 1))
         IN  Append(c, (IF Len(c) = 0 THEN 0 ELSE c[Len(c)]) + a[Len(a)])

PingStartsInclusive(beam_counts) == cumsum(beam_counts)

\* line 155: np.concatenate(([0], np.cumsum(final_beam_counts)[:-1]))
PingStarts(beam_counts) ==
    <<0>> \o SubSeq(cumsum(beam_counts), 1, Len(beam_counts) - 1)

AfterNavigationAlways(nav) == "RewindToStart"

\* line 35: an empty navigation list ends the run, any other goes on
AfterNavigation(nav) ==
    IF Len(nav) = 0 THEN "EmptyNavigationError" ELSE "RewindToStart"

----------------------------------------------------------------------------
(* The run *)

ListVars == <<list_lat, list_lon, list_z, list_bs, list_ang,
              list_beam_counts, list_ping_times>>
ReaderVars == <<pos, opened, closes, rewinds>>
FileVars == <<isfile, fileLen, content>>

\* a file is either short with freely drawn datagrams, or long and repeating
\* one depth datagram
Init ==
    /\ pc = "Opening"
    /\ isfile \in BOOLEAN
    /\ \/ fileLen \in 0..MaxRecords /\ content = Datagrams
       \/ fileLen = LongRecords /\ content \in {{d} : d \in RepeatedPings}
    /\ pos = 0
    /\ opened = FALSE
    /\ closes = 0
    /\ rewinds = 0
    /\ navigation = <<>>
    /\ decoded = <<>>
    /\ ping_count = 0
    /\ list_lat = <<>> /\ list_lon = <<>> /\ list_z = <<>>
    /\ list_bs = <<>> /\ list_ang = <<>>
    /\ list_beam_counts = <<>> /\ list_ping_times = <<>>
    /\ progress = <<>>
    /\ data = EmptyData
    /\ error = "none"

\* lines 20-22: the path is no file
OpenMissing ==
    /\ pc = "Opening"
    /\ ~isfile
    /\ pc' = "FileNotFound"
    /\ UNCHANGED <<FileVars, ReaderVars, navigation, decoded, ping_count,
                   ListVars, progress, data, error>>

\* line 25: r = pyall.allreader(filename)
Open ==
    /\ pc = "Opening"
    /\ isfile
    /\ opened' = TRUE
    /\ pc' = "LoadingNavigation"
    /\ UNCHANGED <<FileVars, pos, closes, rewinds, navigation, decoded,
                   ping_count, ListVars, progress, data, error>>

\* lines 33-48: r.loadnavigation() returns; the reader is left at the start or
\* at the end of the file; an empty list closes the reader and ends the run
LoadNavigation ==
    /\ pc = "LoadingNavigation"
    /\ \E nav \in Navigations, p \in {0, fileLen} :
          /\ navigation' = nav
          /\ pos' = p
          /\ pc' = AfterNavigation(nav)
          /\ closes' = IF AfterNavigation(nav) = "EmptyNavigationError"
                       THEN closes + 1 ELSE closes
    /\ UNCHANGED <<FileVars, opened, rewinds, decoded, ping_count, ListVars,
                   progress, data, error>>

\* line 33: r.loadnavigation() raises
LoadNavigationRaises ==
    /\ pc = "LoadingNavigation"
    /\ pc' = "Raised"
    /\ error' = "loadnavigation"
    /\ UNCHANGED <<FileVars, ReaderVars, navigation, decoded, ping_count,
                   ListVars, progress, data>>

\* lines 51-63: r.rewind(), the containers start empty
Rewind ==
    /\ pc = "RewindToStart"
    /\ pos' = 0
    /\ rewinds' = rewinds + 1
    /\ pc' = "StreamingDepthRecords"
    /\ UNCHANGED <<FileVars, opened, closes, navigation, decoded, ping_count,
                   ListVars, progress, data, error>>

\* line 51: r.rewind() raises
RewindRaises ==
    /\ pc = "RewindToStart"
    /\ pc' = "Raised"
    /\ error' = "rewind"
    /\ UNCHANGED <<FileVars, ReaderVars, navigation, decoded, ping_count,
                   ListVars, progress, data>>

\* lines 65-131: one iteration of the loop, r.moredata() being true
ReadRecord ==
    /\ pc = "StreamingDepthRecords"
    /\ pos < fileLen
    /\ \E d \in content :
          /\ pos' = pos + 1
          /\ decoded' = Append(decoded, d)
          /\ IF d.type = "X"
             THEN LET L == Collect(Lists, d, navigation)
                  IN  /\ ping_count' = ping_count + 1
                      /\ list_lat' = L.lat
                      /\ list_lon' = L.lon
                      /\ list_z' = L.z
                      /\ list_bs' = L.bs
                      /\ list_ang' = L.ang
                      /\ list_beam_counts' = L.beam_counts
                      /\ list_ping_times' = L.ping_times
                      /\ progress' = Notified(progress, d, navigation, ping_count + 1)
             ELSE UNCHANGED <<ping_count, ListVars, progress>>
    /\ UNCHANGED <<FileVars, opened, closes, rewinds, navigation, pc, data, error>>

\* lines 67-71: r.readdatagram() or datagram.read() raises
DecodeRaises ==
    /\ pc = "StreamingDepthRecords"
    /\ pos < fileLen
    /\ pc' = "Raised"
    /\ error' = "readdatagram"
    /\ UNCHANGED <<FileVars, ReaderVars, navigation, decoded, ping_count,
                   ListVars, progress, data>>

\* line 107: the geodetic primitive raises on a beam of a ping that has a
\* navigation value; the ping was counted and nothing of it was collected
ProjectRaises ==
    /\ pc = "StreamingDepthRecords"
    /\ pos < fileLen
    /\ \E d \in content :
          /\ d.type = "X"
          /\ Len(d.depth) > 0
          /\ LET ts == to_timestamp(d.recorddate, d.time)
             IN  ~Skipped(RefLat(navigation, ts), RefLon(navigation, ts))
          /\ pos' = pos + 1
          /\ decoded' = Append(decoded, d)
          /\ ping_count' = ping_count + 1
    /\ pc' = "Raised"
    /\ error' = "geodetic"
    /\ UNCHANGED <<FileVars, opened, closes, rewinds, navigation, ListVars,
                   progress, data>>

\* lines 65, 133-136: r.moredata() is false; the last progress line, r.close()
LeaveStreaming ==
    /\ pc = "StreamingDepthRecords"
    /\ pos = fileLen
    /\ progress' = Append(progress, ping_count)
    /\ closes' = closes + 1
    /\ pc' = "Finalizing"
    /\ UNCHANGED <<FileVars, pos, opened, rewinds, navigation, decoded,
                   ping_count, ListVars, data, error>>

\* lines 138-174: no depth datagram at all returns None; np.concatenate of an
\* empty list raises ValueError; otherwise the dictionary is built and returned
Finalize ==
    /\ pc = "Finalizing"
    /\ IF ping_count = 0
       THEN /\ pc' = "NoValidDataError"
            /\ UNCHANGED <<data, error>>
       ELSE IF Len(list_lat) = 0
       THEN /\ pc' = "Raised"
            /\ error' = "ValueError"
            /\ UNCHANGED data
       ELSE /\ data' = [lat |-> Concatenate(list_lat),
                        lon |-> Concatenate(list_lon),
                        z   |-> Concatenate(list_z),
                        bs  |-> Concatenate(list_bs),
                        ang |-> Concatenate(list_ang),
                        ping_counts |-> list_beam_counts,
                        ping_starts |-> PingStarts(list_beam_counts),
                        ping_times  |-> list_ping_times]
            /\ pc' = "Done"
            /\ UNCHANGED error
    /\ UNCHANGED <<FileVars, ReaderVars, navigation, decoded, ping_count,
                   ListVars, progress>>

Next ==
    \/ OpenMissing
    \/ Open
    \/ LoadNavigation
    \/ LoadNavigationRaises
    \/ Rewind
    \/ RewindRaises
    \/ ReadRecord
    \/ DecodeRaises
    \/ ProjectRaises
    \/ LeaveStreaming
    \/ Finalize

Spec == Init /\ [][Next]_vars

----------------------------------------------------------------------------
(* Properties *)

RECURSIVE SumSeq(_)
SumSeq(a) == IF Len(a) = 0 THEN 0 ELSE Head(a) + SumSeq(Tail(a))

Terminal == pc \in {"FileNotFound", "EmptyNavigationError", "NoValidDataError",
                    "Done", "Raised"}

\* failures raised by the collaborators (decoder, geodetic primitive)
CollaboratorErrors == {"loadnavigation", "rewind", "readdatagram", "geodetic"}

TsOf(d) == to_timestamp(d.recorddate, d.time)

\* the datagram is a depth ping whose timestamp has a navigation value
HasNav(d) ==
    /\ d.type = "X"
    /\ RefLat(navigation, TsOf(d)) # None
    /\ RefLon(navigation, TsOf(d)) # None

\* the depth pings with a navigation value among the datagrams read, in file order
ProcessedPings == SelectSeq(decoded, HasNav)

\* the depth datagrams read, with or without a navigation value
IsDepth(d) == d.type = "X"
DepthPings == SelectSeq(decoded, IsDepth)

\* C1: in every returned dataset lat, lon, z, bs and ang have one length, the
\* sum of ping_counts
C1_FlatLengths ==
    pc = "Done" =>
        LET n == SumSeq(data.ping_counts)
        IN  /\ Len(data.lat) = n
            /\ Len(data.lon) = n
            /\ Len(data.z) = n
            /\ Len(data.bs) = n
            /\ Len(data.ang) = n

\* a dataset of a file with a skipped ping, a zero-beam ping or another
\* datagram, and with beams
C1_Witness ==
    /\ pc = "Done"
    /\ Len(data.z) >= 2
    /\ \/ ping_count > Len(data.ping_counts)
       \/ \E k \in 1..Len(data.ping_counts) : data.ping_counts[k] = 0
       \/ Len(decoded) > ping_count

\* C2: ping_starts has as many entries as ping_counts and ping_times, starts
\* at 0 and is the exclusive prefix sum of ping_counts
C2_PingStarts ==
    pc = "Done" =>
        LET N == Len(data.ping_counts)
        IN  /\ Len(data.ping_starts) = N
            /\ Len(data.ping_times) = N
            /\ data.ping_starts[1] = 0
            /\ \A k \in 1..(N - 1) :
                  data.ping_starts[k + 1] = data.ping_starts[k] + data.ping_counts[k]

\* a dataset of two pings, the first with beams
C2_Witness ==
    /\ pc = "Done"
    /\ Len(data.ping_counts) >= 2
    /\ data.ping_counts[1] > 0
    /\ data.ping_starts[2] = data.ping_counts[1]

\* C3: with navigation loaded and no ping collected, a run that the
\* collaborators did not abort ends in the NoValidDataError outcome
C3_NoValidData ==
    (/\ Terminal
     /\ navigation # <<>>
     /\ error \notin CollaboratorErrors
     /\ list_beam_counts = <<>>)
        => pc = "NoValidDataError"

\* C4: the ping index lists exactly the depth pings with a navigation value,
\* in file order, each with its beam count and its timestamp; a ping without a
\* navigation value adds nothing and the loop goes on
C4_IndexListsProcessed ==
    error # "geodetic" =>
        /\ list_ping_times = [k \in 1..Len(ProcessedPings) |-> TsOf(ProcessedPings[k])]
        /\ list_beam_counts = [k \in 1..Len(ProcessedPings) |-> Len(ProcessedPings[k].depth)]
        /\ Len(list_z) = Len(ProcessedPings)
        /\ Len(list_bs) = Len(ProcessedPings)
        /\ Len(list_ang) = Len(ProcessedPings)
        /\ Len(list_lat) = Len(ProcessedPings)
        /\ Len(list_lon) = Len(ProcessedPings)
        /\ ping_count = Len(DepthPings)
        /\ (pc = "Done" =>
               /\ data.ping_times = list_ping_times
               /\ data.ping_counts = list_beam_counts
               /\ Len(data.z) = SumSeq([k \in 1..Len(ProcessedPings) |->
                                            Len(ProcessedPings[k].depth)]))

\* a dataset of a file where a skipped ping with beams came before a
\* collected one
C4_Witness ==
    /\ pc = "Done"
    /\ Len(decoded) >= 2
    /\ decoded[1].type = "X" /\ ~HasNav(decoded[1]) /\ Len(decoded[1].depth) > 0
    /\ HasNav(decoded[2])
    /\ Len(data.ping_counts) = 1
    /\ ping_count = 2

\* C5: a navigation load that returned no fix ends the run in
\* EmptyNavigationError: no dataset, no rewind, no datagram read, no
\* finalization, the reader closed
C5_EmptyNavigation ==
    (/\ pc \notin {"Opening", "LoadingNavigation", "FileNotFound"}
     /\ error # "loadnavigation"
     /\ navigation = <<>>)
        => /\ pc = "EmptyNavigationError"
           /\ data = EmptyData
           /\ rewinds = 0
           /\ pos \in {0, fileLen}
           /\ decoded = <<>>
           /\ ping_count = 0
           /\ progress = <<>>
           /\ closes = 1

\* the run of a file with datagrams ended by the empty navigation
C5_Witness ==
    /\ pc = "EmptyNavigationError"
    /\ navigation = <<>>
    /\ fileLen > 0
    /\ closes = 1

\* C6: in every terminal state of a run that opened the reader, the reader
\* was closed exactly once
C6_ReaderClosed ==
    (Terminal /\ opened) => closes = 1

\* C7: the phases follow Opening, LoadingNavigation, (EmptyNavigationError or
\* RewindToStart), StreamingDepthRecords, Finalizing, (NoValidDataError or
\* Done); the reader is rewound once, between the load and the first read;
\* streaming is left when the reader has no more data; apart from that only a
\* collaborator's failure ends a run
ClaimedSteps ==
    {<<"Opening", "FileNotFound">>,
     <<"Opening", "LoadingNavigation">>,
     <<"LoadingNavigation", "EmptyNavigationError">>,
     <<"LoadingNavigation", "RewindToStart">>,
     <<"RewindToStart", "StreamingDepthRecords">>,
     <<"StreamingDepthRecords", "StreamingDepthRecords">>,
     <<"StreamingDepthRecords", "Finalizing">>,
     <<"Finalizing", "NoValidDataError">>,
     <<"Finalizing", "Done">>}

C7_Step ==
    \/ /\ pc' = "Raised"
       /\ error' \in CollaboratorErrors
    \/ /\ <<pc, pc'>> \in ClaimedSteps
       /\ (pc = "StreamingDepthRecords" /\ pc' = "Finalizing") => pos = fileLen
       /\ (rewinds' # rewinds) =>
             /\ pc = "RewindToStart"
             /\ rewinds = 0 /\ rewinds' = 1
             /\ decoded = <<>>
       /\ (decoded' # decoded) =>
             /\ pc = "StreamingDepthRecords"
             /\ rewinds = 1
             /\ navigation # <<>>
       /\ (data' # data) => (pc = "Finalizing" /\ pos = fileLen)

C7_PhaseOrder == [][C7_Step]_vars

\* C9: each collected beam's (lon, lat) is the geodetic primitive applied to
\* the navigation value at its own ping's timestamp, its ping's heading,
\* dx = its across-track and dy = its along-track distance
C9_BeamPositions ==
    error # "geodetic" =>
        \A k \in 1..Len(list_lon) :
            LET d == ProcessedPings[k]
            IN  /\ Len(list_lon[k]) = Len(d.depth)
                /\ Len(list_lat[k]) = Len(d.depth)
                /\ \A i \in 1..Len(d.depth) :
                      <<list_lon[k][i], list_lat[k][i]>> =
                          calculateGeographicalPositionFromBearingDxDy(
                              RefLon(navigation, TsOf(d))[1],
                              RefLat(navigation, TsOf(d))[1],
                              d.heading,
                              d.acrosstrackdistance[i],
                              d.alongtrackdistance[i])

\* two collected pings with beams, of different timestamps and headings
C9_Witness ==
    /\ Len(list_lon) = 2
    /\ Len(list_lon[1]) > 0 /\ Len(list_lon[2]) > 0
    /\ list_ping_times[1] # list_ping_times[2]
    /\ ProcessedPings[1].heading # ProcessedPings[2].heading
    /\ RefLon(navigation, list_ping_times[1]) # RefLon(navigation, list_ping_times[2])

\* C8: in every returned dataset, position ping_starts[k] + i of z, bs, ang,
\* lat and lon holds beam i of the k-th collected ping, and ping_times[k] is
\* that ping's timestamp
C8_FlatOrder ==
    pc = "Done" =>
        /\ Len(data.ping_counts) = Len(ProcessedPings)
        /\ \A k \in 1..Len(ProcessedPings) :
              LET d == ProcessedPings[k]
                  s == data.ping_starts[k]
              IN  /\ data.ping_counts[k] = Len(d.depth)
                  /\ data.ping_times[k] = TsOf(d)
                  /\ \A i \in 1..Len(d.depth) :
                        /\ data.z[s + i] = d.depth[i]
                        /\ data.bs[s + i] = d.reflectivity[i]
                        /\ data.ang[s + i] = Atan2Deg(d.acrosstrackdistance[i], d.depth[i])
                        /\ data.lat[s + i] = list_lat[k][i]
                        /\ data.lon[s + i] = list_lon[k][i]

\* a dataset of two different pings, the first with two beams
C8_Witness ==
    /\ pc = "Done"
    /\ Len(data.ping_counts) = 2
    /\ data.ping_counts[1] = 2
    /\ data.ping_counts[2] >= 1
    /\ ProcessedPings[1] # ProcessedPings[2]

\* C10: while streaming, one progress line has been written for every
\* multiple of ProgressEvery the count of depth pings has reached
C10_ProgressEvery ==
    pc = "StreamingDepthRecords" =>
        progress = [k \in 1..(ping_count \div ProgressEvery) |-> k * ProgressEvery]

====
